---- MODULE Spec2Model ----
(***************************************************************************)
(* Model of the universal IBS validator: the reconciliation engine         *)
(* (engine.py, IBSValidator) and the disclosure dominance aggregator       *)
(* (confidentiality.py, apply_dominance_rule).                             *)
(*                                                                         *)
(* A DataFrame is a record [columns, rows]: the ordered column names and   *)
(* the rows, each row a tuple of cells aligned with the columns.  Numeric  *)
(* cells are integers (one unit stands for the smallest amount that the    *)
(* reports distinguish); the grouping column K holds numeric codes and the *)
(* column TAG holds string codes.                                          *)
(***************************************************************************)
EXTENDS Integers, Sequences, FiniteSets, TLC

\* ---------------------------------------------------------------- bounds
\* Longest dataset (rows) the caller loads.
MaxRows == 2
\* Number of rules one engine is handed over all its calls.
MaxEvals == 2
\* Longest dataset (rows) handed to the dominance aggregator.
MaxDomRows == 3

\* ------------------------------------------------------------ data frames
DataFrame(cols, rws) == [columns |-> cols, rows |-> rws]

\* Mutant of Upper: str.swapcase(), which undoes itself when applied twice.
Upper_SwapCase(c) ==
    CASE c = "k" -> "K"
      [] c = "tag" -> "TAG"
      [] c = "value" -> "VALUE"
      [] c = "K" -> "k"
      [] c = "TAG" -> "tag"
      [] c = "VALUE" -> "value"
      [] OTHER -> c

\* str.upper() on the column names the model uses.
Upper(c) ==
    CASE c = "k" -> "K"
      [] c = "tag" -> "TAG"
      [] c = "value" -> "VALUE"
      [] OTHER -> c

\* df.columns = [c.upper() for c in df.columns]
UpperColumns(df) ==
    [df EXCEPT !.columns = [i \in 1..Len(df.columns) |-> Upper(df.columns[i])]]

HasCol(df, c) == \E i \in 1..Len(df.columns) : df.columns[i] = c

ColIdx(df, c) ==
    CHOOSE i \in 1..Len(df.columns) :
        /\ df.columns[i] = c
        /\ \A j \in 1..(i - 1) : df.columns[j] # c

\* Mutant of Empty: the vacuous-match shortcut is never taken.
Empty_Never(df) == FALSE

\* DataFrame.empty: some axis has length 0.
Empty(df) == Len(df.rows) = 0 \/ Len(df.columns) = 0

\* df[name] = value (scalar broadcast): overwrite the column or append it.
SetColumn(df, name, value) ==
    IF HasCol(df, name)
    THEN [df EXCEPT !.rows = [i \in 1..Len(df.rows) |->
                                [df.rows[i] EXCEPT ![ColIdx(df, name)] = value]]]
    ELSE DataFrame(Append(df.columns, name),
                   [i \in 1..Len(df.rows) |-> Append(df.rows[i], value)])

\* ------------------------------------------------------------ rule filters
\* A filter is the caller's row selection, (DataFrame, Context) -> DataFrame:
\*   all  : lambda df, ctx: df
\*   isin : lambda df, ctx: df[df.<col>.isin(<vals>)]
\*   ctx  : lambda df, ctx: df[df.<col> == ctx.reporting_country]
\* Attribute access to a column the frame does not have raises.
Filter(kind, col, vals) == [kind |-> kind, col |-> col, vals |-> vals]

ApplyFilter(f, df, ctx) ==
    IF f.kind = "all" THEN [err |-> FALSE, df |-> df]
    ELSE IF ~HasCol(df, f.col) THEN [err |-> TRUE, df |-> df]
    ELSE LET c == ColIdx(df, f.col)
             Keep(r) == IF f.kind = "ctx"
                        THEN r[c] = ctx.reporting_country
                        ELSE r[c] \in f.vals
         IN  [err |-> FALSE, df |-> [df EXCEPT !.rows = SelectSeq(df.rows, Keep)]]

\* ------------------------------------------------------------ aggregation
\* The tuple of a row's cells in the grouping dimensions.
KeyOf(df, row, dims) == [i \in 1..Len(dims) |-> row[ColIdx(df, dims[i])]]

\* Sort rank of a cell: K holds numbers, every other column string codes.
CellRank(col, v) ==
    IF col = "K" THEN v
    ELSE CASE v = "a" -> 1 [] v = "b" -> 2 [] OTHER -> 3

\* Lexicographic order of two keys over the same dimensions.
KeyLess(dims, x, y) ==
    \E i \in 1..Len(dims) :
        /\ CellRank(dims[i], x[i]) < CellRank(dims[i], y[i])
        /\ \A j \in 1..(i - 1) : x[j] = y[j]

\* The keys of a set in ascending order (groupby and merge sort their keys).
RECURSIVE SortKeys(_, _)
SortKeys(dims, S) ==
    IF S = {} THEN << >>
    ELSE LET m == CHOOSE x \in S : \A y \in S \ {x} : KeyLess(dims, x, y)
         IN  << m >> \o SortKeys(dims, S \ {m})

\* Series.sum() over the VALUE cells of the rows.
RECURSIVE SumValue(_, _)
SumValue(df, rws) ==
    IF rws = << >> THEN 0
    ELSE Head(rws)[ColIdx(df, "VALUE")] + SumValue(df, Tail(rws))

\* df.groupby(dims)['VALUE'].sum() raises KeyError when a grouping column or
\* the VALUE column is not in the frame, also when the frame has no rows.
GroupByRaises(df, dims) ==
    \/ \E i \in 1..Len(dims) : ~HasCol(df, dims[i])
    \/ ~HasCol(df, "VALUE")

\* df.groupby(dims)['VALUE'].sum().reset_index(): one row per distinct key,
\* keys ascending.
GroupBySum(df, dims) ==
    LET keys == { KeyOf(df, df.rows[i], dims) : i \in 1..Len(df.rows) }
        srt  == SortKeys(dims, keys)
        Of(k) == SelectSeq(df.rows, LAMBDA r : KeyOf(df, r, dims) = k)
    IN  [i \in 1..Len(srt) |-> [key |-> srt[i], VALUE |-> SumValue(df, Of(srt[i]))]]

\* --------------------------------------------------------------- the join
\* A float cell of the merged frame: NaN where the side has no such key.
NaN == [na |-> TRUE, v |-> 0]
Num(x) == [na |-> FALSE, v |-> x]

AggKeys(agg) == { agg[i].key : i \in 1..Len(agg) }
AggValue(agg, k) ==
    IF k \in AggKeys(agg)
    THEN Num(agg[CHOOSE i \in 1..Len(agg) : agg[i].key = k].VALUE)
    ELSE NaN

\* pd.merge(lhs_agg, rhs_agg, on=dims, how='outer'): union of the keys.
MergeOuter(dims, lhs_agg, rhs_agg) ==
    LET srt == SortKeys(dims, AggKeys(lhs_agg) \cup AggKeys(rhs_agg))
    IN  [i \in 1..Len(srt) |->
            [key |-> srt[i],
             LHS_VALUE |-> AggValue(lhs_agg, srt[i]),
             RHS_VALUE |-> AggValue(rhs_agg, srt[i])]]

\* Mutant of FillNa: the missing side is left NaN.
FillNa_Skipped(x) == x

\* .fillna(0)
FillNa(x) == IF x.na THEN Num(0) ELSE x
FillNaFrame(m) ==
    [i \in 1..Len(m) |-> [m[i] EXCEPT !.LHS_VALUE = FillNa(@), !.RHS_VALUE = FillNa(@)]]

\* Float arithmetic and comparisons: NaN propagates and compares False.
FSub(x, y) == IF x.na \/ y.na THEN NaN ELSE Num(x.v - y.v)
FAbs(x) == IF x.na THEN NaN ELSE Num(IF x.v < 0 THEN -x.v ELSE x.v)
FGt(x, t) == ~x.na /\ x.v > t
FLt(x, t) == ~x.na /\ x.v < t

\* ------------------------------------------------------------- operators
KnownOperator(op) == op \in {"eq", "gte", "lte"}

\* Mutant of IsFail: equality fails already at a difference of the tolerance.
IsFail_EqNonStrict(op, diff, tolerance) ==
    CASE op = "eq"  -> ~FLt(FAbs(diff), tolerance)
      [] op = "gte" -> FLt(diff, -tolerance)
      [] op = "lte" -> FGt(diff, tolerance)
      [] OTHER -> FALSE

\* Mutant of IsFail: lte compares the size of the difference, not its sign.
IsFail_LteAbs(op, diff, tolerance) ==
    CASE op = "eq"  -> FGt(FAbs(diff), tolerance)
      [] op = "gte" -> FLt(diff, -tolerance)
      [] op = "lte" -> FGt(FAbs(diff), tolerance)
      [] OTHER -> FALSE

\* Mutant of IsFail: gte forgets to negate the tolerance.
IsFail_GteNotNegated(op, diff, tolerance) ==
    CASE op = "eq"  -> FGt(FAbs(diff), tolerance)
      [] op = "gte" -> FLt(diff, tolerance)
      [] op = "lte" -> FGt(diff, tolerance)
      [] OTHER -> FALSE

\* merged['IS_FAIL'] for the three operators the engine knows.
IsFail(op, diff, tolerance) ==
    CASE op = "eq"  -> FGt(FAbs(diff), tolerance)
      [] op = "gte" -> FLt(diff, -tolerance)
      [] op = "lte" -> FGt(diff, tolerance)
      [] OTHER -> FALSE

OperatorSymbol(op) ==
    CASE op = "eq" -> "=" [] op = "gte" -> ">=" [] op = "lte" -> "<=" [] OTHER -> ""

\* astype(str) of a grouping cell: numeric codes are formatted, strings kept.
AsTypeStr(col, v) ==
    IF col = "K"
    THEN CASE v = 1 -> "1" [] v = 2 -> "2" [] v = 3 -> "3" [] OTHER -> "0"
    ELSE v

\* Mutant of FailureRecord: the difference is recorded without its sign.
FailureRecord_AbsDiff(rule, m, diff) ==
    [dims |-> rule.join_dims,
     key |-> [i \in 1..Len(rule.join_dims) |-> AsTypeStr(rule.join_dims[i], m.key[i])],
     LHS_VALUE |-> m.LHS_VALUE.v,
     RHS_VALUE |-> m.RHS_VALUE.v,
     DIFF |-> FAbs(diff).v,
     IS_FAIL |-> TRUE,
     RULE_ID |-> rule.rule_id,
     DESCRIPTION |-> rule.description,
     OPERATOR |-> OperatorSymbol(rule.operator)]

\* One row of the failures frame of a rule.
FailureRecord(rule, m, diff) ==
    [dims |-> rule.join_dims,
     key |-> [i \in 1..Len(rule.join_dims) |-> AsTypeStr(rule.join_dims[i], m.key[i])],
     LHS_VALUE |-> m.LHS_VALUE.v,
     RHS_VALUE |-> m.RHS_VALUE.v,
     DIFF |-> diff.v,
     IS_FAIL |-> TRUE,
     RULE_ID |-> rule.rule_id,
     DESCRIPTION |-> rule.description,
     OPERATOR |-> OperatorSymbol(rule.operator)]

\* ---------------------------------------------------------- _process_rule
\* The engine state a rule evaluation works on: the accumulator and the
\* printed lines; exc names the exception that leaves _process_rule.
Outcome(results, stdout, exc) == [results |-> results, stdout |-> stdout, exc |-> exc]

\* Mutant of OnFilterError: the filter's exception is raised again.
OnFilterError_Reraised(rule, results, stdout) ==
    Outcome(results, stdout, "AttributeError")

\* except Exception as e: print(...); return
OnFilterError(rule, results, stdout) ==
    Outcome(results, Append(stdout, rule.rule_id), "none")

\* Mutant of VacuousMatch: one empty side is enough to skip the rule.
VacuousMatch_Either(lhs_data, rhs_data) == Empty(lhs_data) \/ Empty(rhs_data)

\* if lhs_data.empty and rhs_data.empty: return
VacuousMatch(lhs_data, rhs_data) == Empty(lhs_data) /\ Empty(rhs_data)

\* Mutant of AppendBatch: the batch is appended also when it has no rows.
AppendBatch_Always(results, failures) == Append(results, failures)

\* if not failures.empty: ...; self.results.append(failures)
AppendBatch(results, failures) ==
    IF failures = << >> THEN results ELSE Append(results, failures)

ProcessRule(rule, lhs_raw, rhs_raw, ctx, results, stdout) ==
    LET lf == ApplyFilter(rule.lhs_filter, lhs_raw, ctx)
        rf == ApplyFilter(rule.rhs_filter, rhs_raw, ctx)
    IN
    IF lf.err \/ rf.err
    THEN OnFilterError(rule, results, stdout)
    ELSE IF VacuousMatch(lf.df, rf.df)
    THEN Outcome(results, stdout, "none")
    ELSE IF GroupByRaises(lf.df, rule.join_dims) \/ GroupByRaises(rf.df, rule.join_dims)
    THEN Outcome(results, stdout, "KeyError")
    ELSE
      LET merged == FillNaFrame(MergeOuter(rule.join_dims,
                                           GroupBySum(lf.df, rule.join_dims),
                                           GroupBySum(rf.df, rule.join_dims)))
          Diff(m) == FSub(m.LHS_VALUE, m.RHS_VALUE)
          failing == SelectSeq(merged,
                               LAMBDA m : IsFail(rule.operator, Diff(m), rule.tolerance))
          failures == [i \in 1..Len(failing) |->
                          FailureRecord(rule, failing[i], Diff(failing[i]))]
      IN
      IF ~KnownOperator(rule.operator)
      THEN Outcome(results, stdout, "KeyError")
      ELSE Outcome(AppendBatch(results, failures), stdout, "none")

\* --------------------------------------------------------------- validate
\* for rule in rules: self._process_rule(rule, lhs_df, rhs_df)
\* An exception of _process_rule leaves the loop and validate; done counts
\* the rules whose evaluation returned.
RECURSIVE RunRules(_, _, _, _, _, _, _)
RunRules(rs, i, lhs, rhs, ctx, res, out) ==
    IF i > Len(rs)
    THEN [results |-> res, stdout |-> out, exc |-> "none", done |-> Len(rs)]
    ELSE LET o == ProcessRule(rs[i], lhs, rhs, ctx, res, out)
         IN  IF o.exc # "none"
             THEN [results |-> o.results, stdout |-> o.stdout,
                   exc |-> o.exc, done |-> i - 1]
             ELSE RunRules(rs, i + 1, lhs, rhs, ctx, o.results, o.stdout)

\* The rows of the batches, one batch after the other.
RECURSIVE ConcatRows(_)
ConcatRows(batches) ==
    IF batches = << >> THEN << >> ELSE Head(batches) \o ConcatRows(Tail(batches))

\* The grouping columns of the concatenated frame: those of the batches in
\* the order of their first appearance (concat joins the columns 'outer').
RECURSIVE UnionDims(_)
UnionDims(batches) ==
    IF batches = << >> THEN << >>
    ELSE LET front == UnionDims(SubSeq(batches, 1, Len(batches) - 1))
             Known(c) == \E j \in 1..Len(front) : front[j] = c
         IN  front \o SelectSeq(batches[Len(batches)][1].dims, LAMBDA c : ~Known(c))

\* The cell concat fills in where a batch lacks a column: NaN, here among
\* the str cells of the grouping columns.
NaNCell == "NaN"

\* A record laid out over the columns of the concatenated frame.
Realign(rec, cols) ==
    [rec EXCEPT
        !.dims = cols,
        !.key = [j \in 1..Len(cols) |->
                    IF \E d \in 1..Len(rec.dims) : rec.dims[d] = cols[j]
                    THEN rec.key[CHOOSE d \in 1..Len(rec.dims) : rec.dims[d] = cols[j]]
                    ELSE NaNCell]]

\* pd.concat(self.results, ignore_index=True), or an empty frame.
Concat(batches) ==
    LET rws == ConcatRows(batches)
    IN  [n \in 1..Len(rws) |-> Realign(rws[n], UnionDims(batches))]

\* ------------------------------------------------- apply_dominance_rule
RECURSIVE Gcd(_, _)
Gcd(a, b) == IF b = 0 THEN a ELSE Gcd(b, a % b)

\* The float row_value / group_total: a fraction in lowest terms with a
\* positive denominator, or inf, -inf, nan when the total is 0 (the division
\* of two Series raises nothing).
Share(v, t) ==
    IF t = 0
    THEN [kind |-> IF v > 0 THEN "inf" ELSE IF v < 0 THEN "-inf" ELSE "nan",
          n |-> 0, d |-> 1]
    ELSE LET av == IF v < 0 THEN -v ELSE v
             at == IF t < 0 THEN -t ELSE t
             g == Gcd(av, at)
             sgn == IF (v < 0) = (t < 0) THEN 1 ELSE -1
         IN  [kind |-> "num", n |-> sgn * (av \div g), d |-> at \div g]

\* Mutant of ShareGt: a share equal to the threshold counts as dominant.
ShareGt_NonStrict(share, threshold) ==
    CASE share.kind = "inf" -> TRUE
      [] share.kind = "num" -> share.n * threshold.d >= threshold.n * share.d
      [] OTHER -> FALSE

\* share > threshold on floats.
ShareGt(share, threshold) ==
    CASE share.kind = "inf" -> TRUE
      [] share.kind = "num" -> share.n * threshold.d > threshold.n * share.d
      [] OTHER -> FALSE

\* df.groupby(group_cols)[value_col].transform('sum'), for the row at i.
GroupTotal(df, value_col, group_cols, i) ==
    LET same == SelectSeq(df.rows,
                    LAMBDA r : KeyOf(df, r, group_cols) = KeyOf(df, df.rows[i], group_cols))
        c == ColIdx(df, value_col)
        F[n \in 0..Len(same)] == IF n = 0 THEN 0 ELSE F[n - 1] + same[n][c]
    IN  F[Len(same)]

\* df[name] = series: overwrite the column or append it.
SetColumnSeries(df, name, series) ==
    IF HasCol(df, name)
    THEN [df EXCEPT !.rows = [i \in 1..Len(df.rows) |->
                                [df.rows[i] EXCEPT ![ColIdx(df, name)] = series[i]]]]
    ELSE DataFrame(Append(df.columns, name),
                   [i \in 1..Len(df.rows) |-> Append(df.rows[i], series[i])])

\* Mutant of DropColumn: the frame is returned with the column still in it.
DropColumn_Skipped(df, name) == df

\* df.drop(columns=[name]): a new frame without the column.
DropColumn(df, name) ==
    LET c == ColIdx(df, name)
        Cut(sq) == SubSeq(sq, 1, c - 1) \o SubSeq(sq, c + 1, Len(sq))
    IN  DataFrame(Cut(df.columns), [i \in 1..Len(df.rows) |-> Cut(df.rows[i])])

\* The caller's frame after the two column assignments.
WithShareAndStatus(df, value_col, group_cols, threshold) ==
    LET shares == [i \in 1..Len(df.rows) |->
                      Share(df.rows[i][ColIdx(df, value_col)],
                            GroupTotal(df, value_col, group_cols, i))]
        status == [i \in 1..Len(df.rows) |->
                      IF ShareGt(shares[i], threshold) THEN "N" ELSE "F"]
    IN  SetColumnSeries(SetColumnSeries(df, "market_share", shares),
                        "CONFIDENTIALITY_STATUS", status)

\* ------------------------------------------------------------ the inputs
\* The run's context; the reporting country is one of the TAG codes.
Contexts == { [reporting_country |-> "a", currency_code |-> "CAD", quarter |-> "2025-Q3"] }

StdColumns == << "K", "TAG", "VALUE" >>
\* Positions are signed amounts.
RowPool == { << 1, "a", 1 >>, << 1, "b", 3 >>, << 2, "a", -3 >> }

SeqsUpTo(S, n) == UNION { [1..m -> S] : m \in 0..n }

\* The datasets a caller loads: canonical columns, and two frames whose
\* columns are lower case or lack the grouping column K.
DataSets ==
    { DataFrame(StdColumns, rws) : rws \in SeqsUpTo(RowPool, MaxRows) }
    \cup { DataFrame(<< "k", "tag", "value" >>, << << 1, "a", 3 >> >>),
           DataFrame(<< "Q", "TAG", "VALUE" >>, << << 1, "a", 1 >> >>) }

FAll == Filter("all", "", {})
FTagA == Filter("isin", "TAG", {"a"})
FTagB == Filter("isin", "TAG", {"b"})
FCtx == Filter("ctx", "TAG", {})
FBad == Filter("isin", "POSITION", {"C"})

Rule(id, desc, lf, rf, dims, op, tol) ==
    [rule_id |-> id, description |-> desc, lhs_filter |-> lf, rhs_filter |-> rf,
     join_dims |-> dims, operator |-> op, tolerance |-> tol]

\* The rule catalog the caller draws its rule lists from.
RuleCatalog ==
    { Rule("EQ0", "lhs = rhs", FAll, FAll, << "K" >>, "eq", 0),
      Rule("EQ2", "lhs = rhs within 2", FAll, FAll, << "K" >>, "eq", 2),
      Rule("EQAB2", "a = b within 2", FTagA, FTagB, << "K" >>, "eq", 2),
      Rule("EQKT0", "lhs = rhs per tag", FAll, FAll, << "K", "TAG" >>, "eq", 0),
      Rule("EQCTX2", "own country = rhs", FCtx, FAll, << "K" >>, "eq", 2),
      Rule("GTE2", "lhs >= rhs within 2", FAll, FAll, << "K" >>, "gte", 2),
      Rule("LTE2", "lhs <= rhs within 2", FAll, FAll, << "K" >>, "lte", 2),
      Rule("FERRL", "bad lhs filter", FBad, FAll, << "K" >>, "eq", 0),
      Rule("FERRR", "bad rhs filter", FAll, FBad, << "K" >>, "eq", 0),
      Rule("DIMX", "unknown dimension", FAll, FAll, << "X" >>, "eq", 0),
      Rule("BADOP", "unknown operator", FAll, FAll, << "K" >>, "neq", 0) }

RuleLists(n) == SeqsUpTo(RuleCatalog, n)

\* The rules of the catalog that compare a dataset with itself, the ones a
\* caller tags a single dataset with.
InternalRules == { r \in RuleCatalog : r.rule_id \in {"EQAB2", "EQKT0"} }
InternalRuleLists(n) == SeqsUpTo(InternalRules, n)

\* The frames handed to the dominance aggregator: one row per reporting
\* country, bank and value.
DomColumns == << "REP_CTY", "BANK_ID", "VALUE" >>
DomValues == {-3, 0, 2, 3}
DomRowPool ==
    { << "CA", b, v >> : b \in {"BANK_A", "BANK_B"}, v \in DomValues }
    \cup { << "US", "BANK_A", v >> : v \in {-3, 3} }
DomDataSets == { DataFrame(DomColumns, rws) : rws \in SeqsUpTo(DomRowPool, MaxDomRows) }

\* The grouping that defines a market; CP_SECTOR is not a column of the frames.
GroupColChoices == { << "REP_CTY" >>, << "REP_CTY", "BANK_ID" >>, << "CP_SECTOR" >> }
ContributorCols == { "BANK_ID", "REP_CTY" }
\* The default threshold 0.60 and one half, as fractions.
Thresholds == { [n |-> 3, d |-> 5], [n |-> 1, d |-> 2] }

\* ------------------------------------------------------------- the state
VARIABLES
    context,     \* IBSValidator.context
    results,     \* IBSValidator.results, the accumulator
    stdout,      \* the rule ids of the printed filter errors
    lhs_df,      \* the caller's left dataset
    rhs_df,      \* the caller's right dataset
    call,        \* the last call: entry point, rule list, exception, progress
    before,      \* the accumulator when the last call was entered
    ret,         \* what the last call returned
    evals,       \* number of rules handed to the engine so far
    dom_df,      \* the caller's frame handed to apply_dominance_rule
    dom_ret,     \* the frame apply_dominance_rule returned
    dom_call     \* the arguments and the exception of its last call

engine_vars == << context, results, stdout, lhs_df, rhs_df, call, before, ret, evals >>
dom_vars == << dom_df, dom_ret, dom_call >>
vars == << engine_vars, dom_vars >>

\* The value of a call that returned nothing, or did not return.
None == << "None" >>

NoCall == [op |-> "none", rules |-> << >>, exc |-> "none", done |-> 0]

NoDomCall ==
    [op |-> "none", value_col |-> "", group_cols |-> << >>, contributor_col |-> "",
     threshold |-> [n |-> 0, d |-> 1], exc |-> "none"]

\* No frame has been handed to the dominance aggregator.
DomIdle ==
    /\ dom_df = DataFrame(<< >>, << >>)
    /\ dom_ret = None
    /\ dom_call = NoDomCall

\* IBSValidator(context), with the caller's two datasets loaded.
Init ==
    /\ context \in Contexts
    /\ results = << >>
    /\ stdout = << >>
    /\ lhs_df \in DataSets
    /\ rhs_df \in DataSets
    /\ call = NoCall
    /\ before = << >>
    /\ ret = None
    /\ evals = 0
    /\ DomIdle

\* validator.validate(lhs_df, rhs_df, rs)
Validate(rs) ==
    /\ evals + Len(rs) <= MaxEvals
    /\ LET lhs == UpperColumns(lhs_df)
           rhs == UpperColumns(rhs_df)
           o == RunRules(rs, 1, lhs, rhs, context, results, stdout)
       IN  /\ lhs_df' = lhs
           /\ rhs_df' = rhs
           /\ results' = o.results
           /\ stdout' = o.stdout
           /\ call' = [op |-> "validate", rules |-> rs, exc |-> o.exc, done |-> o.done]
    /\ before' = results
    /\ evals' = evals + Len(rs)
    /\ ret' = None
    /\ UNCHANGED << context, dom_vars >>

\* Mutant of GetFailures: handing out the failures empties the accumulator.
GetFailures_Draining ==
    /\ ret' = Concat(results)
    /\ call' = [op |-> "get_failures", rules |-> << >>, exc |-> "none", done |-> 0]
    /\ before' = results
    /\ results' = << >>
    /\ UNCHANGED << context, stdout, lhs_df, rhs_df, evals, dom_vars >>

\* validator.get_failures()
GetFailures ==
    /\ ret' = Concat(results)
    /\ call' = [op |-> "get_failures", rules |-> << >>, exc |-> "none", done |-> 0]
    /\ before' = results
    /\ UNCHANGED << context, results, stdout, lhs_df, rhs_df, evals, dom_vars >>

\* Mutant of TagDataset: the rules run through _process_rule, which appends
\* their failures to the accumulator.
TagDataset_Accumulating(rs) ==
    /\ evals + Len(rs) <= MaxEvals
    /\ lhs_df' = SetColumn(lhs_df, "QUALITY_STATUS", "PASS")
    /\ LET df == UpperColumns(lhs_df')
           o == RunRules(rs, 1, df, df, context, results, stdout)
       IN  /\ results' = o.results
           /\ stdout' = o.stdout
           /\ ret' = lhs_df'
           /\ call' = [op |-> "tag_dataset", rules |-> rs, exc |-> o.exc, done |-> o.done]
    /\ before' = results
    /\ evals' = evals + Len(rs)
    /\ UNCHANGED << context, rhs_df, dom_vars >>

\* validator.tag_dataset(lhs_df, rs): the status column is set on the
\* caller's frame, then the first rule calls self._get_failed_rows, which the
\* class does not define.
TagDataset(rs) ==
    /\ evals + Len(rs) <= MaxEvals
    /\ lhs_df' = SetColumn(lhs_df, "QUALITY_STATUS", "PASS")
    /\ IF rs = << >>
       THEN /\ ret' = lhs_df'
            /\ call' = [op |-> "tag_dataset", rules |-> rs, exc |-> "none", done |-> 0]
       ELSE /\ ret' = None
            /\ call' = [op |-> "tag_dataset", rules |-> rs,
                        exc |-> "AttributeError", done |-> 0]
    /\ before' = results
    /\ evals' = evals + Len(rs)
    /\ UNCHANGED << context, results, stdout, rhs_df, dom_vars >>

\* Mutant of ApplyDominance: a row is judged on the share of all the rows of
\* its contributor in the group, not on its own.
ApplyDominance_ByContributor(value_col, group_cols, contributor_col, threshold) ==
    LET args == [op |-> "apply_dominance_rule", value_col |-> value_col,
                 group_cols |-> group_cols, contributor_col |-> contributor_col,
                 threshold |-> threshold, exc |-> "none"]
        shares == [i \in 1..Len(dom_df.rows) |->
                      Share(GroupTotal(dom_df, value_col,
                                       Append(group_cols, contributor_col), i),
                            GroupTotal(dom_df, value_col, group_cols, i))]
        status == [i \in 1..Len(dom_df.rows) |->
                      IF ShareGt(shares[i], threshold) THEN "N" ELSE "F"]
    IN
    /\ dom_call.op = "none"
    /\ IF \/ \E i \in 1..Len(group_cols) : ~HasCol(dom_df, group_cols[i])
          \/ ~HasCol(dom_df, value_col)
       THEN /\ dom_call' = [args EXCEPT !.exc = "KeyError"]
            /\ dom_df' = dom_df
            /\ dom_ret' = None
       ELSE /\ dom_call' = args
            /\ dom_df' = SetColumnSeries(SetColumnSeries(dom_df, "market_share", shares),
                                         "CONFIDENTIALITY_STATUS", status)
            /\ dom_ret' = DropColumn(dom_df', "market_share")
    /\ UNCHANGED engine_vars

\* apply_dominance_rule(dom_df, value_col, group_cols, contributor_col, threshold)
ApplyDominance(value_col, group_cols, contributor_col, threshold) ==
    LET args == [op |-> "apply_dominance_rule", value_col |-> value_col,
                 group_cols |-> group_cols, contributor_col |-> contributor_col,
                 threshold |-> threshold, exc |-> "none"]
    IN
    \* the caller hands over a frame as loaded, once
    /\ dom_call.op = "none"
    /\ IF \/ \E i \in 1..Len(group_cols) : ~HasCol(dom_df, group_cols[i])
          \/ ~HasCol(dom_df, value_col)
       THEN /\ dom_call' = [args EXCEPT !.exc = "KeyError"]
            /\ dom_df' = dom_df
            /\ dom_ret' = None
       ELSE /\ dom_call' = args
            /\ dom_df' = WithShareAndStatus(dom_df, value_col, group_cols, threshold)
            /\ dom_ret' = DropColumn(dom_df', "market_share")
    /\ UNCHANGED engine_vars

Next ==
    \/ \E rs \in RuleLists(MaxEvals) : Validate(rs)
    \/ GetFailures
    \/ \E rs \in InternalRuleLists(MaxEvals) : TagDataset(rs)

Spec == Init /\ [][Next]_vars

\* The dominance aggregator on its own: a frame at contributor granularity
\* is loaded, the engine is constructed and left alone.
InitDom ==
    /\ context \in Contexts
    /\ results = << >>
    /\ stdout = << >>
    /\ lhs_df = DataFrame(StdColumns, << >>)
    /\ rhs_df = DataFrame(StdColumns, << >>)
    /\ call = NoCall
    /\ before = << >>
    /\ ret = None
    /\ evals = 0
    /\ dom_df \in DomDataSets
    /\ dom_ret = None
    /\ dom_call = NoDomCall

NextDom ==
    \E gc \in GroupColChoices, cc \in ContributorCols, th \in Thresholds :
        ApplyDominance("VALUE", gc, cc, th)

SpecDom == InitDom /\ [][NextDom]_vars

\* ======================================================= the claims' terms
\* The rule at position i of the last validate call.
RuleAt(i) == call.rules[i]

\* The batches the last call appended.
NewBatches == SubSeq(results, Len(before) + 1, Len(results))

\* The filtered sides of a rule over the datasets of the last call.
LeftData(rule) == ApplyFilter(rule.lhs_filter, lhs_df, context)
RightData(rule) == ApplyFilter(rule.rhs_filter, rhs_df, context)
FilterError(rule) == LeftData(rule).err \/ RightData(rule).err

\* The rule at position i was reached: every rule before it returned.
Reached(i) == call.op = "validate" /\ i \in 1..Len(call.rules) /\ i <= call.done + 1
\* The rule at position i returned.
Returned(i) == call.op = "validate" /\ i \in 1..call.done

\* Every grouping key a dataset could hold for the dimensions.
CellDomain(col) == IF col = "K" THEN {1, 2} ELSE {"a", "b"}
KeyUniverse(dims) ==
    IF Len(dims) = 1
    THEN { << u >> : u \in CellDomain(dims[1]) }
    ELSE { << u, v >> : u \in CellDomain(dims[1]), v \in CellDomain(dims[2]) }

\* The rows of a frame that carry the key, and the sum of their VALUE cells.
RowsWithKey(df, dims, k) ==
    { i \in 1..Len(df.rows) : \A j \in 1..Len(dims) : df.rows[i][ColIdx(df, dims[j])] = k[j] }

RECURSIVE SumOfRows(_, _)
SumOfRows(df, I) ==
    IF I = {} THEN 0
    ELSE LET i == CHOOSE x \in I : TRUE
         IN  df.rows[i][ColIdx(df, "VALUE")] + SumOfRows(df, I \ {i})

LeftHas(rule, k) == RowsWithKey(LeftData(rule).df, rule.join_dims, k) # {}
RightHas(rule, k) == RowsWithKey(RightData(rule).df, rule.join_dims, k) # {}
LeftSum(rule, k) ==
    SumOfRows(LeftData(rule).df, RowsWithKey(LeftData(rule).df, rule.join_dims, k))
RightSum(rule, k) ==
    SumOfRows(RightData(rule).df, RowsWithKey(RightData(rule).df, rule.join_dims, k))

Abs(x) == IF x < 0 THEN -x ELSE x

\* The failure records the last call added for a rule and a key.
RecordsOf(rule, k) ==
    { rec \in UNION { { b[n] : n \in 1..Len(b) } :
                        b \in { NewBatches[m] : m \in 1..Len(NewBatches) } } :
        /\ rec.RULE_ID = rule.rule_id
        /\ rec.dims = rule.join_dims
        /\ rec.key = [j \in 1..Len(k) |-> AsTypeStr(rule.join_dims[j], k[j])] }
HasRecord(rule, k) == RecordsOf(rule, k) # {}

\* The last call added some batch for the rule.
HasBatch(rule) ==
    \E m \in 1..Len(NewBatches) : \E n \in 1..Len(NewBatches[m]) :
        NewBatches[m][n].RULE_ID = rule.rule_id

\* A rule whose evaluation returned after comparing the two sides.
Compared(i, op) ==
    /\ Returned(i)
    /\ RuleAt(i).operator = op
    /\ ~FilterError(RuleAt(i))

\* ------------------------------------------------------------------- C1
\* C1: for a rule with operator 'eq' and tolerance T, one validate call adds
\* a failure record for a grouping key K if and only if
\* |left_sum(K) - right_sum(K)| > T; a difference of exactly T adds none.
C1_EqFailsIffBeyondTolerance ==
    \A i \in 1..Len(call.rules) :
        Compared(i, "eq") =>
            \A k \in KeyUniverse(RuleAt(i).join_dims) :
                HasRecord(RuleAt(i), k)
                    <=> Abs(LeftSum(RuleAt(i), k) - RightSum(RuleAt(i), k))
                            > RuleAt(i).tolerance

\* An 'eq' rule with a positive tolerance was evaluated over a key whose
\* difference is exactly the tolerance (no record) and a key beyond it (record).
C1_Witness ==
    \E i \in 1..Len(call.rules) :
        /\ Compared(i, "eq")
        /\ RuleAt(i).tolerance > 0
        /\ \E k1, k2 \in KeyUniverse(RuleAt(i).join_dims) :
            /\ LeftHas(RuleAt(i), k1) /\ RightHas(RuleAt(i), k1)
            /\ Abs(LeftSum(RuleAt(i), k1) - RightSum(RuleAt(i), k1)) = RuleAt(i).tolerance
            /\ ~HasRecord(RuleAt(i), k1)
            /\ Abs(LeftSum(RuleAt(i), k2) - RightSum(RuleAt(i), k2)) > RuleAt(i).tolerance
            /\ HasRecord(RuleAt(i), k2)

\* ------------------------------------------------------------------- C2
\* The failure predicate of an operator on a left and a right aggregate.
Violates(op, l, r, t) ==
    CASE op = "eq" -> Abs(l - r) > t
      [] op = "gte" -> l - r < -t
      [] op = "lte" -> l - r > t

\* C2: a grouping key present on one side only is compared with the missing
\* side taken as 0: it fails exactly when the operator's predicate fails
\* against 0 (under 'eq', when |V| > T), and its record carries 0 for the
\* missing side; it is never skipped.
C2_OuterJoinZeroFill ==
    \A i \in 1..Len(call.rules) :
        (/\ Returned(i)
         /\ KnownOperator(RuleAt(i).operator)
         /\ ~FilterError(RuleAt(i))) =>
            \A k \in KeyUniverse(RuleAt(i).join_dims) :
                LET r == RuleAt(i) IN
                /\ (LeftHas(r, k) /\ ~RightHas(r, k)) =>
                      /\ HasRecord(r, k)
                            <=> Violates(r.operator, LeftSum(r, k), 0, r.tolerance)
                      /\ \A rec \in RecordsOf(r, k) :
                            /\ rec.LHS_VALUE = LeftSum(r, k)
                            /\ rec.RHS_VALUE = 0
                /\ (RightHas(r, k) /\ ~LeftHas(r, k)) =>
                      /\ HasRecord(r, k)
                            <=> Violates(r.operator, 0, RightSum(r, k), r.tolerance)
                      /\ \A rec \in RecordsOf(r, k) :
                            /\ rec.LHS_VALUE = 0
                            /\ rec.RHS_VALUE = RightSum(r, k)

\* An 'eq' rule met a key held by the left side only and one held by the
\* right side only, both beyond the tolerance, and recorded both.
C2_Witness ==
    \E i \in 1..Len(call.rules) :
        /\ Compared(i, "eq")
        /\ \E k1, k2 \in KeyUniverse(RuleAt(i).join_dims) :
            /\ LeftHas(RuleAt(i), k1) /\ ~RightHas(RuleAt(i), k1)
            /\ HasRecord(RuleAt(i), k1)
            /\ RightHas(RuleAt(i), k2) /\ ~LeftHas(RuleAt(i), k2)
            /\ HasRecord(RuleAt(i), k2)

\* ------------------------------------------------------------------- C3
\* C3: for a rule with operator 'lte' and tolerance T, a failure record is
\* added for key K if and only if left_sum(K) - right_sum(K) > T; a left
\* value below the right value never fails.
C3_LteFailsIffAboveTolerance ==
    \A i \in 1..Len(call.rules) :
        Compared(i, "lte") =>
            \A k \in KeyUniverse(RuleAt(i).join_dims) :
                HasRecord(RuleAt(i), k)
                    <=> LeftSum(RuleAt(i), k) - RightSum(RuleAt(i), k)
                            > RuleAt(i).tolerance

\* An 'lte' rule recorded a key whose left value exceeds the right beyond the
\* tolerance and passed a key whose left value is far below the right.
C3_Witness ==
    \E i \in 1..Len(call.rules) :
        /\ Compared(i, "lte")
        /\ \E k1, k2 \in KeyUniverse(RuleAt(i).join_dims) :
            /\ LeftSum(RuleAt(i), k1) - RightSum(RuleAt(i), k1) > RuleAt(i).tolerance
            /\ HasRecord(RuleAt(i), k1)
            /\ RightSum(RuleAt(i), k2) - LeftSum(RuleAt(i), k2) > RuleAt(i).tolerance
            /\ ~HasRecord(RuleAt(i), k2)

\* ------------------------------------------------------------------- C4
\* C4: for a rule with operator 'gte' and tolerance T, a failure record is
\* added for key K if and only if left_sum(K) - right_sum(K) < -T; a left
\* value above the right never fails, nor does a shortfall of exactly T.
C4_GteFailsIffBelowTolerance ==
    \A i \in 1..Len(call.rules) :
        Compared(i, "gte") =>
            \A k \in KeyUniverse(RuleAt(i).join_dims) :
                HasRecord(RuleAt(i), k)
                    <=> LeftSum(RuleAt(i), k) - RightSum(RuleAt(i), k)
                            < -RuleAt(i).tolerance

\* A 'gte' rule with a positive tolerance passed a key short by exactly the
\* tolerance and recorded a key short by more.
C4_Witness ==
    \E i \in 1..Len(call.rules) :
        /\ Compared(i, "gte")
        /\ RuleAt(i).tolerance > 0
        /\ \E k1, k2 \in KeyUniverse(RuleAt(i).join_dims) :
            /\ RightSum(RuleAt(i), k1) - LeftSum(RuleAt(i), k1) = RuleAt(i).tolerance
            /\ ~HasRecord(RuleAt(i), k1)
            /\ RightSum(RuleAt(i), k2) - LeftSum(RuleAt(i), k2) > RuleAt(i).tolerance
            /\ HasRecord(RuleAt(i), k2)

\* ------------------------------------------------------------------- C5
RemoveAt(sq, i) == SubSeq(sq, 1, i - 1) \o SubSeq(sq, i + 1, Len(sq))

\* The last validate call ended as the same call would without the rule at
\* position i: same accumulator, same exception, the same rules returned.
AsIfAbsent(i) ==
    LET o == RunRules(RemoveAt(call.rules, i), 1, lhs_df, rhs_df, context, before, << >>)
    IN  /\ results = o.results
        /\ call.exc = o.exc
        /\ call.done = o.done + 1

\* C5: a rule whose left or right filter raises adds nothing to the
\* accumulator and raises nothing to the caller, and the later rules of the
\* list are evaluated and contribute exactly as if that rule were absent.
C5_FilterErrorIsolated ==
    \A i \in 1..Len(call.rules) :
        (Reached(i) /\ FilterError(RuleAt(i))) =>
            /\ Returned(i)
            /\ ~HasBatch(RuleAt(i))
            /\ AsIfAbsent(i)

\* The right filter alone raised for the first rule of a list over a left
\* side with rows, and the second rule was evaluated and recorded failures.
C5_Witness ==
    /\ call.op = "validate"
    /\ Len(call.rules) = 2
    /\ ~LeftData(RuleAt(1)).err
    /\ Len(LeftData(RuleAt(1)).df.rows) > 0
    /\ RightData(RuleAt(1)).err
    /\ call.done = 2
    /\ HasBatch(RuleAt(2))

\* ------------------------------------------------------------------- C6
\* C6: no exception escapes a rule's evaluation: whatever step fails after
\* filtering (aggregation over an absent column, an unknown operator),
\* validate returns normally and every rule of the list is evaluated.
C6_NoExceptionEscapes ==
    call.op = "validate" => (call.exc = "none" /\ call.done = Len(call.rules))

\* ------------------------------------------------------------------- C7
\* Both filtered sides of the rule have no rows.
BothSidesEmpty(rule) ==
    /\ ~FilterError(rule)
    /\ Len(LeftData(rule).df.rows) = 0
    /\ Len(RightData(rule).df.rows) = 0

\* C7: a rule whose filtered sides are both empty returns without an error
\* and leaves the accumulator as it was, whatever its operator, tolerance
\* and grouping dimensions.
C7_VacuousMatch ==
    \A i \in 1..Len(call.rules) :
        (Reached(i) /\ BothSidesEmpty(RuleAt(i))) =>
            /\ Returned(i)
            /\ ~HasBatch(RuleAt(i))
            /\ AsIfAbsent(i)
            /\ Len(call.rules) = 1 => (results = before /\ call.exc = "none")

\* A call of one rule found both sides empty on an engine that already held
\* failures, and the accumulator is as it was.
C7_Witness ==
    /\ call.op = "validate"
    /\ Len(call.rules) = 1
    /\ BothSidesEmpty(RuleAt(1))
    /\ Len(lhs_df.rows) > 0
    /\ before # << >>
    /\ results = before

\* ------------------------------------------------------------------- C8
\* The dominance aggregator returned a frame.
DomReturned == dom_call.op = "apply_dominance_rule" /\ dom_call.exc = "none"

DomValue(i) == dom_ret.rows[i][ColIdx(dom_ret, dom_call.value_col)]
DomStatus(i) == dom_ret.rows[i][ColIdx(dom_ret, "CONFIDENTIALITY_STATUS")]

\* The rows of the returned frame in the group of row i, and their total.
DomGroup(i) ==
    { j \in 1..Len(dom_ret.rows) :
        \A g \in 1..Len(dom_call.group_cols) :
            dom_ret.rows[j][ColIdx(dom_ret, dom_call.group_cols[g])]
                = dom_ret.rows[i][ColIdx(dom_ret, dom_call.group_cols[g])] }

RECURSIVE DomSum(_)
DomSum(I) ==
    IF I = {} THEN 0
    ELSE LET i == CHOOSE x \in I : TRUE IN DomValue(i) + DomSum(I \ {i})

DomTotal(i) == DomSum(DomGroup(i))

\* value / total > n / d for a total other than 0, in integers.
ShareAbove(value, total, th) ==
    IF total > 0 THEN value * th.d > th.n * total
                 ELSE value * th.d < th.n * total
ShareEquals(value, total, th) == value * th.d = th.n * total

\* C8: a row of a group whose total is not 0 is marked 'N' if and only if
\* row value / group total is strictly greater than the threshold, and 'F'
\* otherwise; a share equal to the threshold is 'F'.  (A group total of 0
\* leaves the share undefined: that case is C9's.)
C8_DominantIffShareAboveThreshold ==
    DomReturned =>
        \A i \in 1..Len(dom_ret.rows) :
            DomTotal(i) # 0 =>
                /\ DomStatus(i) \in {"N", "F"}
                /\ DomStatus(i) = "N"
                      <=> ShareAbove(DomValue(i), DomTotal(i), dom_call.threshold)

\* One frame held a row whose share equals the threshold (marked 'F'), a row
\* above it (marked 'N') and a row below it (marked 'F').
C8_Witness ==
    /\ DomReturned
    /\ \E i, j, k \in 1..Len(dom_ret.rows) :
        /\ DomTotal(i) # 0 /\ DomTotal(j) # 0 /\ DomTotal(k) # 0
        /\ ShareEquals(DomValue(i), DomTotal(i), dom_call.threshold)
        /\ DomStatus(i) = "F"
        /\ ShareAbove(DomValue(j), DomTotal(j), dom_call.threshold)
        /\ DomStatus(j) = "N"
        /\ ~ShareAbove(DomValue(k), DomTotal(k), dom_call.threshold)
        /\ ~ShareEquals(DomValue(k), DomTotal(k), dom_call.threshold)
        /\ DomStatus(k) = "F"

\* ------------------------------------------------------------------- C9
\* C9: when the values of a group sum to 0, every row of the group is
\* marked 'F' and no error is raised, whatever the row values are.
C9_ZeroTotalIsPublishable ==
    dom_call.op = "apply_dominance_rule" =>
        \/ dom_call.exc = "KeyError"
        \/ /\ dom_call.exc = "none"
           /\ \A i \in 1..Len(dom_ret.rows) : DomTotal(i) = 0 => DomStatus(i) = "F"

\* ------------------------------------------------------------------ C10
\* The rows of the tagged frame without their status cell.
TagCut(sq) ==
    LET c == ColIdx(ret, "QUALITY_STATUS")
    IN  SubSeq(sq, 1, c - 1) \o SubSeq(sq, c + 1, Len(sq))
TagInput == DataFrame(TagCut(ret.columns), [i \in 1..Len(ret.rows) |-> TagCut(ret.rows[i])])

\* Row i of the tagged frame is among the filtered rows of a side of the
\* rule, and its key violates the rule over the frame joined with itself.
Participates(i, rule) ==
    LET df == UpperColumns(TagInput)
        lf == ApplyFilter(rule.lhs_filter, df, context)
        rf == ApplyFilter(rule.rhs_filter, df, context)
        k == KeyOf(df, df.rows[i], rule.join_dims)
        Sum(d) == SumOfRows(d, RowsWithKey(d, rule.join_dims, k))
    IN  /\ ~lf.err /\ ~rf.err
        /\ \E n \in 1..Len(lf.df.rows \o rf.df.rows) :
               (lf.df.rows \o rf.df.rows)[n] = df.rows[i]
        /\ Violates(rule.operator, Sum(lf.df), Sum(rf.df), rule.tolerance)

\* C10: for every dataset and rule list, tag_dataset returns normally the
\* rows of its input in their order plus one status column, 'FAIL' for a
\* row in a violating group of some rule and 'PASS' otherwise.
C10_TagDatasetTagsRows ==
    call.op = "tag_dataset" =>
        /\ call.exc = "none"
        /\ Len(ret.rows) = Len(lhs_df.rows)
        /\ \A i \in 1..Len(ret.rows) :
              ret.rows[i][ColIdx(ret, "QUALITY_STATUS")] =
                  IF \E n \in 1..Len(call.rules) : Participates(i, call.rules[n])
                  THEN "FAIL" ELSE "PASS"

\* ------------------------------------------------------------------ C11
\* sq is an initial part of t.
IsPrefix(sq, t) == Len(sq) <= Len(t) /\ SubSeq(t, 1, Len(sq)) = sq

\* The invocation at position i of the last validate call returned after
\* finding a grouping key that violates its rule.
FoundFailure(i) ==
    /\ Returned(i)
    /\ ~FilterError(RuleAt(i))
    /\ KnownOperator(RuleAt(i).operator)
    /\ \E k \in KeyUniverse(RuleAt(i).join_dims) :
          /\ LeftHas(RuleAt(i), k) \/ RightHas(RuleAt(i), k)
          /\ Violates(RuleAt(i).operator, LeftSum(RuleAt(i), k),
                      RightSum(RuleAt(i), k), RuleAt(i).tolerance)

\* The number of invocations up to position i that found a failure: the
\* place, among the batches of the call, of the batch of such an invocation.
BatchNo(i) == Cardinality({ j \in 1..i : FoundFailure(j) })

\* The accumulator after the last call: what the call found on entry is
\* still its initial part, no batch is empty, and the batches a validate
\* call added are those of its invocations that found a failure, in order.
AccumulatorShape ==
    /\ IsPrefix(before, results)
    /\ \A m \in 1..Len(results) : results[m] # << >>
    /\ call.op # "validate" => results = before
    /\ call.op = "validate" =>
          /\ Len(NewBatches) = BatchNo(call.done)
          /\ \A i \in 1..call.done :
                FoundFailure(i) =>
                    \A n \in 1..Len(NewBatches[BatchNo(i)]) :
                        NewBatches[BatchNo(i)][n].RULE_ID = RuleAt(i).rule_id

\* C11: over any sequence of calls the accumulator holds one batch per rule
\* invocation that found a failing key, in evaluation order, never an empty
\* batch, and no call removes, reorders or changes a batch it holds.
C11_AccumulatorAppendOnly ==
    /\ []AccumulatorShape
    /\ [][IsPrefix(results, results')]_vars

\* A second validate call added the batch of another rule behind the batch
\* the first call had left.
C11_Witness ==
    /\ call.op = "validate"
    /\ Len(call.rules) = 1
    /\ Len(before) = 1
    /\ Len(results) = 2
    /\ results[1] = before[1]
    /\ results[1][1].RULE_ID # results[2][1].RULE_ID

\* ------------------------------------------------------------------ C12
\* The last call is the one validate call of an engine that held nothing.
FirstRun ==
    /\ call.op = "validate"
    /\ before = << >>
    /\ evals = Len(call.rules)

\* A second engine, constructed with the same context after the first one
\* ran, validates the same rule list over the caller's same two datasets
\* (which the first engine's validate has normalised in place).
SecondEngine ==
    RunRules(call.rules, 1, UpperColumns(lhs_df), UpperColumns(rhs_df),
             context, << >>, << >>)

C13_ValidateLeavesInputs ==
    [][call'.op = "validate" => (lhs_df' = lhs_df /\ rhs_df' = rhs_df)]_vars

\* ------------------------------------------------------------------ C14
\* The set of the records of a sequence of batches.
RecordSet(batches) ==
    UNION { { batches[m][n] : n \in 1..Len(batches[m]) } : m \in 1..Len(batches) }

\* The records a fresh engine holds after validating the rule list over the
\* datasets of the last call.
FreshRecords(rs) ==
    RecordSet(RunRules(rs, 1, lhs_df, rhs_df, context, << >>, << >>).results)

\* Every ordering of a rule list.
Orderings(rs) ==
    { [i \in 1..Len(rs) |-> rs[f[i]]] :
        f \in { g \in [1..Len(rs) -> 1..Len(rs)] :
                    \A a, b \in 1..Len(rs) : g[a] = g[b] => a = b } }

\* C14: rule evaluations are independent: the records a validate call adds
\* are those of any other ordering of its rule list, and the union of what
\* each of its rules yields when validated alone on a fresh engine.
C14_RulesIndependent ==
    call.op = "validate" =>
        /\ \A p \in Orderings(call.rules) : FreshRecords(p) = RecordSet(NewBatches)
        /\ RecordSet(NewBatches)
              = UNION { FreshRecords(<< call.rules[i] >>) : i \in 1..Len(call.rules) }

\* ------------------------------------------------------------------ C15
\* The batch the invocation at position i added.
BatchOf(i) == NewBatches[BatchNo(i)]

\* The symbol a failure record shows for an operator.
SymbolOf(op) == CASE op = "eq" -> "=" [] op = "gte" -> ">=" [] op = "lte" -> "<="

\* The key k of the rule is held by a filtered side and violates the rule.
ViolatingKey(rule, k) ==
    /\ LeftHas(rule, k) \/ RightHas(rule, k)
    /\ Violates(rule.operator, LeftSum(rule, k), RightSum(rule, k), rule.tolerance)

\* The grouping-dimension values of a record for the key k, as strings.
StrKey(rule, k) == [j \in 1..Len(k) |-> AsTypeStr(rule.join_dims[j], k[j])]

\* The places in the batch of invocation i of the records for the key k.
PlacesOf(i, k) ==
    IF FoundFailure(i)
    THEN { n \in 1..Len(BatchOf(i)) :
             /\ BatchOf(i)[n].dims = RuleAt(i).join_dims
             /\ BatchOf(i)[n].key = StrKey(RuleAt(i), k) }
    ELSE {}

\* C15: a rule invocation adds exactly one record per violating grouping
\* key, and the record carries the key's values, the left and the right sum
\* of VALUE over the filtered rows with the key (0 if none), the signed
\* difference left - right, the rule's identifier and description and the
\* operator's symbol.
C15_OneRecordPerViolatingKey ==
    \A i \in 1..Len(call.rules) :
        (/\ Returned(i)
         /\ ~FilterError(RuleAt(i))
         /\ KnownOperator(RuleAt(i).operator)) =>
            LET r == RuleAt(i) IN
            /\ FoundFailure(i) =>
                  Len(BatchOf(i))
                      = Cardinality({ k \in KeyUniverse(r.join_dims) : ViolatingKey(r, k) })
            /\ \A k \in KeyUniverse(r.join_dims) :
                  /\ Cardinality(PlacesOf(i, k)) = IF ViolatingKey(r, k) THEN 1 ELSE 0
                  /\ \A n \in PlacesOf(i, k) :
                        /\ BatchOf(i)[n].LHS_VALUE = LeftSum(r, k)
                        /\ BatchOf(i)[n].RHS_VALUE = RightSum(r, k)
                        /\ BatchOf(i)[n].DIFF = LeftSum(r, k) - RightSum(r, k)
                        /\ BatchOf(i)[n].RULE_ID = r.rule_id
                        /\ BatchOf(i)[n].DESCRIPTION = r.description
                        /\ BatchOf(i)[n].OPERATOR = SymbolOf(r.operator)

\* One invocation recorded two violating keys, one of them held by the right
\* side only (left value 0) with a negative difference.
C15_Witness ==
    \E i \in 1..Len(call.rules) :
        /\ FoundFailure(i)
        /\ Len(BatchOf(i)) = 2
        /\ \E k \in KeyUniverse(RuleAt(i).join_dims) :
              /\ ~LeftHas(RuleAt(i), k)
              /\ RightSum(RuleAt(i), k) > 0
              /\ \E n \in PlacesOf(i, k) :
                    /\ BatchOf(i)[n].LHS_VALUE = 0
                    /\ BatchOf(i)[n].DIFF < 0

\* ------------------------------------------------------------------ C16
\* The place in the result set of the record n of the batch m.
PlaceInResult(m, n) ==
    LET F[j \in 0..(m - 1)] == IF j = 0 THEN 0 ELSE F[j - 1] + Len(results[j])
    IN  F[m - 1] + n

\* The cell of a record in one of its grouping columns.
CellOf(rec, col) == rec.key[CHOOSE j \in 1..Len(rec.dims) : rec.dims[j] = col]

\* The record of the result set is the accumulated record, cell by cell.
SameRecord(out, rec) ==
    /\ \A d \in 1..Len(rec.dims) : CellOf(out, rec.dims[d]) = rec.key[d]
    /\ out.LHS_VALUE = rec.LHS_VALUE
    /\ out.RHS_VALUE = rec.RHS_VALUE
    /\ out.DIFF = rec.DIFF
    /\ out.RULE_ID = rec.RULE_ID
    /\ out.DESCRIPTION = rec.DESCRIPTION
    /\ out.OPERATOR = rec.OPERATOR

\* What get_failures returned: every record of every batch, in accumulator
\* order and nothing else, and the accumulator is as it was.
GetFailuresResult ==
    call.op = "get_failures" =>
        /\ results = before
        /\ Len(ret) = PlaceInResult(Len(results) + 1, 0)
        /\ \A m \in 1..Len(results) : \A n \in 1..Len(results[m]) :
              SameRecord(ret[PlaceInResult(m, n)], results[m][n])

\* C16: get_failures returns all records of all accumulated batches in
\* accumulator order (none when nothing was accumulated) and changes nothing:
\* a call that follows it finds every batch the accumulator held.
C16_GetFailuresReadOnly ==
    /\ []GetFailuresResult
    /\ [][call.op = "get_failures" => IsPrefix(results, results')]_vars

\* get_failures returned the records of two batches whose rules group by
\* different dimensions, the first batch first.
C16_Witness ==
    /\ call.op = "get_failures"
    /\ Len(results) = 2
    /\ results[1][1].dims # results[2][1].dims
    /\ results = before
    /\ Len(ret) = Len(results[1]) + Len(results[2])
    /\ ret[1].RULE_ID = results[1][1].RULE_ID
    /\ ret[Len(ret)].RULE_ID = results[2][1].RULE_ID

\* ------------------------------------------------------------------ C18
\* C18: tag_dataset accumulates no failures: whether it returns or raises,
\* the accumulator, and so what get_failures returns, is after the call what
\* it was before.
C18_TagDatasetKeepsAccumulator ==
    call.op = "tag_dataset" => results = before

\* tag_dataset was called with a rule on an engine that held failures, and
\* the accumulator still holds exactly those.
C18_Witness ==
    /\ call.op = "tag_dataset"
    /\ Len(call.rules) = 1
    /\ before # << >>
    /\ results = before

\* ------------------------------------------------------------------ C19
LeftEmpty(rule) == Len(LeftData(rule).df.rows) = 0
RightEmpty(rule) == Len(RightData(rule).df.rows) = 0

\* Exactly one filtered side of the rule has no rows, and both sides hold
\* the rule's grouping dimensions and VALUE (a missing column is C6's case).
OneSideEmpty(rule) ==
    /\ ~FilterError(rule)
    /\ LeftEmpty(rule) # RightEmpty(rule)
    /\ \A c \in { rule.join_dims[j] : j \in 1..Len(rule.join_dims) } \cup {"VALUE"} :
          HasCol(LeftData(rule).df, c) /\ HasCol(RightData(rule).df, c)

\* The sum of the key on the side that has rows.
OneSidedSum(rule, k) == IF LeftEmpty(rule) THEN RightSum(rule, k) ELSE LeftSum(rule, k)
HeldByNonEmptySide(rule, k) == IF LeftEmpty(rule) THEN RightHas(rule, k) ELSE LeftHas(rule, k)

\* C19 as stated: with exactly one filtered side empty the rule is still
\* evaluated and a key of the other side with sum V is recorded, under 'eq'
\* iff |V| > T, under 'gte' only when the empty side is the left and V > T,
\* under 'lte' only when the empty side is the right and V > T.
C19_OneSideEmpty_Stated ==
    \A i \in 1..Len(call.rules) :
        (/\ Reached(i)
         /\ KnownOperator(RuleAt(i).operator)
         /\ OneSideEmpty(RuleAt(i))) =>
            LET r == RuleAt(i) IN
            /\ Returned(i)
            /\ \A k \in KeyUniverse(r.join_dims) :
                  HeldByNonEmptySide(r, k) =>
                      (HasRecord(r, k) <=>
                          CASE r.operator = "eq" -> Abs(OneSidedSum(r, k)) > r.tolerance
                            [] r.operator = "gte" ->
                                  LeftEmpty(r) /\ OneSidedSum(r, k) > r.tolerance
                            [] r.operator = "lte" ->
                                  RightEmpty(r) /\ OneSidedSum(r, k) > r.tolerance)

\* C19, amended: as stated for 'eq'; under 'gte' the key is recorded iff the
\* empty side is the left and V > T, or the empty side is the right and
\* V < -T; under 'lte' iff the empty side is the right and V > T, or the
\* empty side is the left and V < -T.
C19_OneSideEmptyComparedWithZero ==
    \A i \in 1..Len(call.rules) :
        (/\ Reached(i)
         /\ KnownOperator(RuleAt(i).operator)
         /\ OneSideEmpty(RuleAt(i))) =>
            LET r == RuleAt(i) IN
            /\ Returned(i)
            /\ \A k \in KeyUniverse(r.join_dims) :
                  HeldByNonEmptySide(r, k) =>
                      (HasRecord(r, k) <=>
                          CASE r.operator = "eq" -> Abs(OneSidedSum(r, k)) > r.tolerance
                            [] r.operator = "gte" ->
                                  \/ LeftEmpty(r) /\ OneSidedSum(r, k) > r.tolerance
                                  \/ RightEmpty(r) /\ OneSidedSum(r, k) < -r.tolerance
                            [] r.operator = "lte" ->
                                  \/ RightEmpty(r) /\ OneSidedSum(r, k) > r.tolerance
                                  \/ LeftEmpty(r) /\ OneSidedSum(r, k) < -r.tolerance)

\* A 'gte' rule met an empty right side and recorded a key of the left side
\* whose sum is below minus the tolerance, and passed a key above it.
C19_Witness ==
    \E i \in 1..Len(call.rules) :
        /\ Returned(i)
        /\ RuleAt(i).operator = "gte"
        /\ OneSideEmpty(RuleAt(i))
        /\ RightEmpty(RuleAt(i))
        /\ \E k1, k2 \in KeyUniverse(RuleAt(i).join_dims) :
              /\ LeftHas(RuleAt(i), k1)
              /\ LeftSum(RuleAt(i), k1) < -RuleAt(i).tolerance
              /\ HasRecord(RuleAt(i), k1)
              /\ LeftHas(RuleAt(i), k2)
              /\ LeftSum(RuleAt(i), k2) > RuleAt(i).tolerance
              /\ ~HasRecord(RuleAt(i), k2)

DomContributor(i) == dom_ret.rows[i][ColIdx(dom_ret, dom_call.contributor_col)]

====
